---- MODULE Spec2Model ----
(***************************************************************************)
(* A model of the imagehash package: the ImageHash container              *)
(* (imagehash.py), the entry checks and level arithmetic of the hash      *)
(* algorithms (imagehash.py) and the batch comparison loop (__main__.py). *)
(*                                                                         *)
(* A hash grid is a sequence of rows, each row a sequence of booleans.    *)
(* Python indexes from 0 and TLA+ sequences from 1: grid[y][x] of the     *)
(* code is hash[y + 1][x + 1] here.  Every value an operation produces is *)
(* a record [kind, val], so that an integer, a string, a grid and a       *)
(* raised exception can be told apart.                                     *)
(***************************************************************************)
EXTENDS Integers, Sequences, FiniteSets, TLC

VARIABLES hash, other, op, arg, result

\* the ImageHash container: self.hash, the other operand, the last call made,
\* its arguments and its result
cvars == <<hash, other, op, arg, result>>

VARIABLES call, image_scale, dwt_level, pc, sampled, ret

\* one call of a hash algorithm: its arguments, the locals image_scale and
\* dwt_level of whash, the position in the function body, whether the image
\* has been handed to image.convert, and what the call returned or raised
avars == <<call, image_scale, dwt_level, pc, sampled, ret>>

VARIABLES files, cutoff, l, fi, li, h, out, bpc

\* the batch comparison of __main__: the file arguments and the cutoff, the
\* list l of (hash, file) pairs, the positions of the two for loops (fi in
\* files, li in l), the hash h of the current file, what has been printed,
\* and the position in the script
bvars == <<files, cutoff, l, fi, li, h, out, bpc>>

vars == <<cvars, avars, bvars>>

(***************************************************************************)
(* Bounds of the model.                                                    *)
(***************************************************************************)
MaxSide == 3
MaxRawInt == 15
MaxPairSide == 2
MaxDecodeSide == 3
MaxInt == 520
MaxNeg == 9
MaxStrLen == 4
MaxHashSize == 8
MaxNegSize == 2
MaxScale == 16
MaxDim == 5
MaxFiles == 3
MaxCutoff == 2
MaxHashCode == 3
BatchSide == 2

(***************************************************************************)
(* Values.                                                                 *)
(***************************************************************************)
None == [kind |-> "None", val |-> 0]
IntVal(i) == [kind |-> "int", val |-> i]
StrVal(s) == [kind |-> "str", val |-> s]
BoolVal(b) == [kind |-> "bool", val |-> b]
HashVal(g) == [kind |-> "ImageHash", val |-> g]
Raise(e) == [kind |-> "raise", val |-> e]

Grids(n) == [1..n -> [1..n -> BOOLEAN]]
GridsUpTo(n) == UNION {Grids(k) : k \in 1..n}

(***************************************************************************)
(* Arithmetic helpers of the Python runtime.                               *)
(***************************************************************************)
RECURSIVE SumOver(_, _)
SumOver(f, S) ==
  IF S = {} THEN 0
  ELSE LET e == CHOOSE e \in S : TRUE IN f[e] + SumOver(f, S \ {e})

Abs(i) == IF i < 0 THEN -i ELSE i

\* int.bit_length(): the number of bits of the absolute value
RECURSIVE bit_length(_)
bit_length(i) == IF Abs(i) = 0 THEN 0 ELSE 1 + bit_length(Abs(i) \div 2)

\* i & m != 0 for a one-bit mask m = 1 << k (two's complement for i < 0)
BitSet(i, k) == (i \div (2 ^ k)) % 2 = 1

\* reversed(seq)
Reversed(s) == [k \in 1..Len(s) |-> s[Len(s) + 1 - k]]

\* numpy.ndarray.size of a grid
Size(g) == SumOver([y \in 1..Len(g) |-> Len(g[y])], 1..Len(g))

\* numpy.ndarray.flatten()
RECURSIVE Flatten(_)
Flatten(g) == IF Len(g) = 0 THEN <<>> ELSE Head(g) \o Flatten(Tail(g))

HexChars == <<"0", "1", "2", "3", "4", "5", "6", "7",
              "8", "9", "A", "B", "C", "D", "E", "F">>

\* the 'X' presentation type: uppercase hexadecimal digits of n >= 0
RECURSIVE HexDigits(_)
HexDigits(n) ==
  IF n < 16 THEN <<HexChars[n + 1]>>
  ELSE HexDigits(n \div 16) \o <<HexChars[(n % 16) + 1]>>

\* "{0:0{1:d}X}".format(n, width): zero fill up to a minimum width
FormatHex(n, width) ==
  LET d == HexDigits(n) IN
  IF Len(d) >= width THEN d
  ELSE [k \in 1..(width - Len(d)) |-> "0"] \o d

IsHexChar(c) == \E d \in 1..16 : HexChars[d] = c
HexValue(c) == (CHOOSE d \in 1..16 : HexChars[d] = c) - 1

\* int(string, 16) for a string of uppercase hexadecimal digits;
\* the empty string and a string with another character raise ValueError
RECURSIVE ParseHexDigits(_)
ParseHexDigits(s) ==
  IF Len(s) = 0 THEN 0
  ELSE 16 * ParseHexDigits(SubSeq(s, 1, Len(s) - 1)) + HexValue(s[Len(s)])

ParseHex(s) ==
  IF Len(s) = 0 \/ \E k \in 1..Len(s) : ~IsHexChar(s[k])
  THEN Raise("ValueError")
  ELSE IntVal(ParseHexDigits(s))

\* math.sqrt(n).is_integer() and int(math.sqrt(n))
IsSquare(n) == \E k \in 0..n : k * k = n
IntSqrt(n) == CHOOSE k \in 0..n : k * k <= n /\ (k + 1) * (k + 1) > n

(***************************************************************************)
(* class ImageHash                                                         *)
(***************************************************************************)
\* _bits(lo, hi): the bit positions i of the masks 1 << i
bits(lo, hi) == [k \in 1..(hi - lo) |-> lo + k - 1]

\* ImageHash.__int__
to_int(self) ==
  LET n == Len(self)
      rev == Reversed(self)
      cells == {<<y, x>> : y \in 0..(n - 1), x \in 0..(n - 1)}
      term == [c \in cells |->
                 IF c[2] < Len(rev[c[1] + 1]) /\ rev[c[1] + 1][c[2] + 1]
                 THEN 2 ^ (n * c[1] + c[2]) ELSE 0]
  IN SumOver(term, cells)

\* ImageHash.__str__
to_hex_string(self) == FormatHex(to_int(self), Size(self) \div 4)

\* from_int with the length test off by one (>= for >)
from_int_strict(i, size) ==
  IF bit_length(i) >= size * size
  THEN Raise("ValueError")
  ELSE HashVal([y \in 1..size |->
                  [x \in 1..size |-> BitSet(i, size * (y - 1) + x - 1)]])

\* ImageHash.from_int
from_int(i, size) ==
  IF bit_length(i) > size * size
  THEN Raise("ValueError")
  ELSE HashVal([y \in 1..size |->
                  LET ms == bits(size * (y - 1), size * y)
                  IN [x \in 1..Len(ms) |-> BitSet(i, ms[x])]])

\* ImageHash.from_string
from_string(string) ==
  LET nbits == Len(string) * 4 IN
  IF ~IsSquare(nbits)
  THEN Raise("ValueError")
  ELSE LET i == ParseHex(string) IN
       IF i.kind = "raise" THEN i ELSE from_int(i.val, IntSqrt(nbits))

\* numpy.count_nonzero(a != b) for two grids of one shape
CountDiff(a, b) ==
  LET fa == Flatten(a)
      fb == Flatten(b)
  IN Cardinality({k \in 1..Len(fa) : fa[k] # fb[k]})

\* __sub__ counting the positions that agree (== for !=)
sub_equal_positions(self, o) ==
  IF o = None THEN Raise("TypeError")
  ELSE IF Size(self) # Size(o.val) THEN Raise("TypeError")
  ELSE IntVal(Size(self) - CountDiff(self, o.val))

\* ImageHash.__sub__
sub(self, o) ==
  IF o = None THEN Raise("TypeError")
  ELSE IF Size(self) # Size(o.val) THEN Raise("TypeError")
  ELSE IntVal(CountDiff(self, o.val))

\* ImageHash.__eq__
eq(self, o) ==
  IF o = None THEN BoolVal(FALSE)
  ELSE BoolVal(Flatten(self) = Flatten(o.val))

\* ImageHash.__ne__
ne(self, o) ==
  IF o = None THEN BoolVal(FALSE)
  ELSE BoolVal(~(Flatten(self) = Flatten(o.val)))

(***************************************************************************)
(* The container: one hash, its conversions and the decoders applied to   *)
(* what the conversions produced.                                          *)
(***************************************************************************)
NoArg == [i |-> 0, size |-> 0, s |-> <<>>, of |-> "none"]

\* no algorithm is being called
IdleAlg ==
  /\ call = [alg |-> "none", hash_size |-> 0, image_scale |-> None, size |-> <<1, 1>>]
  /\ image_scale = None
  /\ dwt_level = 0
  /\ pc = "idle"
  /\ sampled = FALSE
  /\ ret = None

\* the batch comparison is not running
IdleBatch ==
  /\ files = <<>>
  /\ cutoff = 0
  /\ l = <<>>
  /\ fi = 1
  /\ li = 1
  /\ h = None
  /\ out = <<>>
  /\ bpc = "idle"

\* no container operation is being made
IdleContainer ==
  /\ hash = <<<<FALSE>>>>
  /\ other = None
  /\ op = "new"
  /\ arg = NoArg
  /\ result = None

Init ==
  /\ IdleAlg
  /\ IdleBatch
  /\ hash \in GridsUpTo(MaxSide)
  /\ other = None
  /\ op = "new"
  /\ arg = NoArg
  /\ result = None

\* int(h)
CallInt ==
  /\ op = "new"
  /\ op' = "int"
  /\ result' = IntVal(to_int(hash))
  /\ UNCHANGED <<hash, other, arg, avars, bvars>>

\* str(h)
CallStr ==
  /\ op = "new"
  /\ op' = "str"
  /\ result' = StrVal(to_hex_string(hash))
  /\ UNCHANGED <<hash, other, arg, avars, bvars>>

\* ImageHash.from_int(int(h), size)
FromIntOfInt ==
  /\ op = "int"
  /\ \E size \in 1..MaxSide :
       /\ arg' = [NoArg EXCEPT !.i = result.val, !.size = size, !.of = "int"]
       /\ result' = from_int(result.val, size)
  /\ op' = "from_int"
  /\ UNCHANGED <<hash, other, avars, bvars>>

\* ImageHash.from_int(v, size) for a given integer v
FromInt ==
  /\ op = "new"
  /\ \E v \in 0..MaxRawInt, size \in 1..MaxSide :
       /\ arg' = [NoArg EXCEPT !.i = v, !.size = size, !.of = "given"]
       /\ result' = from_int(v, size)
  /\ op' = "from_int"
  /\ UNCHANGED <<hash, other, avars, bvars>>

\* int(ImageHash.from_int(v, size))
IntOfFromInt ==
  /\ op = "from_int"
  /\ result.kind = "ImageHash"
  /\ op' = "int_of_from_int"
  /\ result' = IntVal(to_int(result.val))
  /\ UNCHANGED <<hash, other, arg, avars, bvars>>

\* ImageHash.from_string(str(h))
FromStringOfStr ==
  /\ op = "str"
  /\ arg' = [NoArg EXCEPT !.s = result.val, !.of = "str"]
  /\ result' = from_string(result.val)
  /\ op' = "from_string"
  /\ UNCHANGED <<hash, other, avars, bvars>>

\* str(ImageHash.from_string(str(h)))
StrOfFromString ==
  /\ op = "from_string"
  /\ result.kind = "ImageHash"
  /\ op' = "str_of_from_string"
  /\ result' = StrVal(to_hex_string(result.val))
  /\ UNCHANGED <<hash, other, arg, avars, bvars>>

Next ==
  \/ CallInt
  \/ CallStr
  \/ FromIntOfInt
  \/ FromInt
  \/ IntOfFromInt
  \/ FromStringOfStr
  \/ StrOfFromString

Spec == Init /\ [][Next]_vars

(***************************************************************************)
(* Two operands: a hash compared with another hash or with None.           *)
(***************************************************************************)
InitPair ==
  /\ IdleAlg
  /\ IdleBatch
  /\ hash \in GridsUpTo(MaxPairSide)
  /\ other \in {None} \cup {HashVal(g) : g \in GridsUpTo(MaxPairSide)}
  /\ op = "new"
  /\ arg = NoArg
  /\ result = None

\* h - other
CallSub ==
  /\ op = "new"
  /\ op' = "sub"
  /\ result' = sub(hash, other)
  /\ UNCHANGED <<hash, other, arg, avars, bvars>>

\* h == other
CallEq ==
  /\ op = "new"
  /\ op' = "eq"
  /\ result' = eq(hash, other)
  /\ UNCHANGED <<hash, other, arg, avars, bvars>>

\* h != other
CallNe ==
  /\ op = "new"
  /\ op' = "ne"
  /\ result' = ne(hash, other)
  /\ UNCHANGED <<hash, other, arg, avars, bvars>>

NextPair ==
  \/ CallSub
  \/ CallEq
  \/ CallNe

SpecPair == InitPair /\ [][NextPair]_vars

(***************************************************************************)
(* The decoders applied to arbitrary integers and strings.                 *)
(***************************************************************************)
DecodeAlphabet == {"0", "1", "A", "B", "C", "D", "F", "G"}

Strings(n) == UNION {[1..k -> DecodeAlphabet] : k \in 0..n}

InitDecode ==
  /\ IdleAlg
  /\ IdleBatch
  /\ hash = <<<<FALSE>>>>
  /\ other = None
  /\ op = "new"
  /\ arg = NoArg
  /\ result = None

\* ImageHash.from_int(v, size)
DecodeInt ==
  /\ op = "new"
  /\ \E v \in (-MaxNeg)..MaxInt, size \in 0..MaxDecodeSide :
       /\ arg' = [NoArg EXCEPT !.i = v, !.size = size, !.of = "given"]
       /\ result' = from_int(v, size)
  /\ op' = "from_int"
  /\ UNCHANGED <<hash, other, avars, bvars>>

\* ImageHash.from_string(s)
DecodeString ==
  /\ op = "new"
  /\ \E s \in Strings(MaxStrLen) :
       /\ arg' = [NoArg EXCEPT !.s = s, !.of = "given"]
       /\ result' = from_string(s)
  /\ op' = "from_string"
  /\ UNCHANGED <<hash, other, avars, bvars>>

NextDecode ==
  \/ DecodeInt
  \/ DecodeString

SpecDecode == InitDecode /\ [][NextDecode]_vars

(***************************************************************************)
(* The hash algorithms: entry checks, sampling and the shape of the        *)
(* returned hash.  The pixel values play no part in what is modelled; the  *)
(* returned hash is recorded by its shape <<rows, cols>>.                  *)
(***************************************************************************)
Algorithms ==
  {"average_hash", "phash", "phash_simple", "dhash", "dhash_vertical", "whash"}

\* default of the highfreq_factor parameter of phash and phash_simple
highfreq_factor == 4

Min(a, b) == IF a < b THEN a ELSE b
Max(a, b) == IF a > b THEN a ELSE b

\* a & b for a, b >= 0
RECURSIVE BitAnd(_, _)
BitAnd(a, b) ==
  IF a = 0 \/ b = 0 THEN 0
  ELSE 2 * BitAnd(a \div 2, b \div 2) + (IF a % 2 = 1 /\ b % 2 = 1 THEN 1 ELSE 0)

\* x & (x - 1) == 0; for x < 0 both operands are negative and so is the
\* result, for x = 0 the result is 0
AndPredIsZero(x) ==
  IF x < 0 THEN FALSE
  ELSE IF x = 0 THEN TRUE
  ELSE BitAnd(x, x - 1) = 0

\* int(numpy.log2(x)): log2(0) is -inf and int(-inf) raises OverflowError,
\* log2 of a negative number is nan and int(nan) raises ValueError
RECURSIVE FloorLog2(_)
FloorLog2(x) == IF x <= 1 THEN 0 ELSE 1 + FloorLog2(x \div 2)

IntLog2(x) ==
  IF x = 0 THEN Raise("OverflowError")
  ELSE IF x < 0 THEN Raise("ValueError")
  ELSE IntVal(FloorLog2(x))

\* length of the approximation band after one level of a Haar decomposition
\* of n samples (filter length 2)
dwt_coeff_len(n) == (n + 1) \div 2

\* side of coeffs[0] of pywt.wavedec2(pixels, 'haar', level)
RECURSIVE wavedec2_ll(_, _)
wavedec2_ll(n, level) ==
  IF level <= 0 THEN n ELSE wavedec2_ll(dwt_coeff_len(n), level - 1)

Shape(rows, cols) == [kind |-> "ImageHash", val |-> <<rows, cols>>]

Calls ==
  {[alg |-> a, hash_size |-> hs, image_scale |-> None, size |-> <<w, ht>>] :
     a \in Algorithms, hs \in (-MaxNegSize)..MaxHashSize,
     w \in 1..MaxDim, ht \in 1..MaxDim}
  \cup
  {[alg |-> "whash", hash_size |-> hs, image_scale |-> IntVal(sc), size |-> <<w, w>>] :
     hs \in (-MaxNegSize)..MaxHashSize, sc \in (-MaxNegSize)..MaxScale,
     w \in 1..MaxDim}

InitAlg ==
  /\ IdleContainer
  /\ IdleBatch
  /\ call \in Calls
  /\ image_scale = call.image_scale
  /\ dwt_level = 0
  /\ pc = "entry"
  /\ sampled = FALSE
  /\ ret = None

RaiseError(e) ==
  /\ pc' = "raised"
  /\ ret' = Raise(e)
  /\ UNCHANGED <<call, image_scale, dwt_level, sampled, cvars, bvars>>

Goto(label) ==
  /\ pc' = label
  /\ UNCHANGED <<call, image_scale, dwt_level, sampled, ret, cvars, bvars>>

\* average_hash, lines 131-132
average_hash_entry ==
  /\ pc = "entry" /\ call.alg = "average_hash"
  /\ IF call.hash_size < 0 THEN RaiseError("ValueError") ELSE Goto("convert")

\* phash, lines 155-156
phash_entry ==
  /\ pc = "entry" /\ call.alg = "phash"
  /\ IF call.hash_size < 0 THEN RaiseError("ValueError") ELSE Goto("convert")

\* phash_simple has no guard on hash_size
phash_simple_entry ==
  /\ pc = "entry" /\ call.alg = "phash_simple"
  /\ Goto("convert")

\* dhash, lines 199-200
dhash_entry ==
  /\ pc = "entry" /\ call.alg = "dhash"
  /\ IF call.hash_size < 0 THEN RaiseError("ValueError") ELSE Goto("convert")

\* dhash_vertical has no guard on hash_size
dhash_vertical_entry ==
  /\ pc = "entry" /\ call.alg = "dhash_vertical"
  /\ Goto("convert")

\* whash, lines 243-254: the scale, the levels and the assertions
whash_entry ==
  /\ pc = "entry" /\ call.alg = "whash"
  /\ LET hash_size == call.hash_size
         given == call.image_scale # None
         natural == IntLog2(Min(call.size[1], call.size[2]))
         scale == IF given THEN call.image_scale.val
                  ELSE Max(2 ^ natural.val, hash_size)
         ll_max_level == IntLog2(scale)
         level == IntLog2(hash_size)
     IN IF given /\ ~AndPredIsZero(scale) THEN RaiseError("AssertionError")
        ELSE IF ~given /\ natural.kind = "raise" THEN RaiseError(natural.val)
        ELSE IF ll_max_level.kind = "raise"
        THEN /\ pc' = "raised"
             /\ ret' = ll_max_level
             /\ image_scale' = IntVal(scale)
             /\ UNCHANGED <<call, dwt_level, sampled, cvars, bvars>>
        ELSE IF level.kind = "raise"
        THEN /\ pc' = "raised"
             /\ ret' = level
             /\ image_scale' = IntVal(scale)
             /\ UNCHANGED <<call, dwt_level, sampled, cvars, bvars>>
        ELSE IF ~AndPredIsZero(hash_size) \/ ~(level.val <= ll_max_level.val)
        THEN /\ pc' = "raised"
             /\ ret' = Raise("AssertionError")
             /\ image_scale' = IntVal(scale)
             /\ UNCHANGED <<call, dwt_level, sampled, cvars, bvars>>
        ELSE /\ pc' = "convert"
             /\ image_scale' = IntVal(scale)
             /\ dwt_level' = ll_max_level.val - level.val
             /\ UNCHANGED <<call, sampled, ret, cvars, bvars>>

\* image.convert("L")
Convert ==
  /\ pc = "convert"
  /\ pc' = "resize"
  /\ sampled' = TRUE
  /\ UNCHANGED <<call, image_scale, dwt_level, ret, cvars, bvars>>

\* the (width, height) handed to resize
ResizeTo ==
  LET hash_size == call.hash_size
      img_size == hash_size * highfreq_factor
  IN CASE call.alg = "average_hash" -> <<hash_size, hash_size>>
       [] call.alg = "phash" -> <<img_size, img_size>>
       [] call.alg = "phash_simple" -> <<img_size, img_size>>
       [] call.alg = "dhash" -> <<hash_size + 1, hash_size>>
       [] call.alg = "dhash_vertical" -> <<hash_size, hash_size + 1>>
       [] call.alg = "whash" -> <<image_scale.val, image_scale.val>>

\* .resize((w, h), Image.ANTIALIAS): for a width or height that is not
\* positive the imaging library either raises or returns an empty image,
\* depending on its version
Resize ==
  /\ pc = "resize"
  /\ \/ Goto("threshold")
     \/ /\ (ResizeTo[1] <= 0 \/ ResizeTo[2] <= 0)
        /\ RaiseError("ValueError")

\* the shape of diff, the array the hash is made of
DiffShape ==
  LET hash_size == call.hash_size IN
  IF call.alg = "whash"
  THEN LET n == wavedec2_ll(image_scale.val, dwt_level) IN <<n, n>>
  ELSE <<hash_size, hash_size>>

\* reshape, transform, threshold and return ImageHash(diff): reshape raises
\* for a negative dimension; on an empty array the transforms either raise
\* or give an empty diff
Threshold ==
  /\ pc = "threshold"
  /\ \/ /\ call.hash_size >= 0
        /\ pc' = "done"
        /\ ret' = Shape(DiffShape[1], DiffShape[2])
        /\ UNCHANGED <<call, image_scale, dwt_level, sampled, cvars, bvars>>
     \/ /\ call.hash_size <= 0
        /\ RaiseError("ValueError")

NextAlg ==
  \/ average_hash_entry
  \/ phash_entry
  \/ phash_simple_entry
  \/ dhash_entry
  \/ dhash_vertical_entry
  \/ whash_entry
  \/ Convert
  \/ Resize
  \/ Threshold

SpecAlg == InitAlg /\ [][NextAlg]_vars

(***************************************************************************)
(* The batch comparison of __main__.py (len(sys.argv) > 2).                *)
(***************************************************************************)
FileNames == {"a.png", "b.png"}

\* the hashes method(Image.open(f)) may return: all of one size
HashPool == {from_int(v, BatchSide) : v \in 0..MaxHashCode}

\* lines 8-13: the arguments are unpacked and l is empty
InitBatch ==
  /\ IdleContainer
  /\ IdleAlg
  /\ files \in UNION {[1..n -> FileNames] : n \in 0..MaxFiles}
  /\ cutoff \in 0..MaxCutoff
  /\ l = <<>>
  /\ fi = 1
  /\ li = 1
  /\ h = None
  /\ out = <<>>
  /\ bpc = "for"

\* lines 15-16: for f in files: h = method(Image.open(f))
HashFile ==
  /\ bpc = "for"
  /\ fi <= Len(files)
  /\ \E g \in HashPool : h' = g
  /\ li' = 1
  /\ bpc' = "inner"
  /\ UNCHANGED <<files, cutoff, l, fi, out, cvars, avars>>

\* line 16: Image.open(f) raises and the script ends
OpenFails ==
  /\ bpc = "for"
  /\ fi <= Len(files)
  /\ bpc' = "failed"
  /\ UNCHANGED <<files, cutoff, l, fi, li, h, out, cvars, avars>>

\* the inner loop with the cutoff test strict (d < cutoff for d <= cutoff)
CompareStrict ==
  /\ bpc = "inner"
  /\ li <= Len(l)
  /\ LET ho == l[li][1]
         fo == l[li][2]
         f == files[fi]
         d == sub(ho.val, h)
     IN IF d.kind = "raise"
        THEN /\ bpc' = "failed"
             /\ UNCHANGED <<li, out>>
        ELSE /\ out' = IF d.val < cutoff THEN Append(out, <<d.val, f, fo>>) ELSE out
             /\ li' = li + 1
             /\ UNCHANGED bpc
  /\ UNCHANGED <<files, cutoff, l, fi, h, cvars, avars>>

\* lines 17-20: for ho, fo in l: d = ho - h; if d <= cutoff: print(d, f, fo)
Compare ==
  /\ bpc = "inner"
  /\ li <= Len(l)
  /\ LET ho == l[li][1]
         fo == l[li][2]
         f == files[fi]
         d == sub(ho.val, h)
     IN IF d.kind = "raise"
        THEN /\ bpc' = "failed"
             /\ UNCHANGED <<li, out>>
        ELSE /\ out' = IF d.val <= cutoff THEN Append(out, <<d.val, f, fo>>) ELSE out
             /\ li' = li + 1
             /\ UNCHANGED bpc
  /\ UNCHANGED <<files, cutoff, l, fi, h, cvars, avars>>

\* line 21: l.append((h, f))
AppendHash ==
  /\ bpc = "inner"
  /\ li > Len(l)
  /\ l' = Append(l, <<h, files[fi]>>)
  /\ fi' = fi + 1
  /\ bpc' = "for"
  /\ UNCHANGED <<files, cutoff, li, h, out, cvars, avars>>

\* the for loop over files is exhausted
Finish ==
  /\ bpc = "for"
  /\ fi > Len(files)
  /\ bpc' = "done"
  /\ UNCHANGED <<files, cutoff, l, fi, li, h, out, cvars, avars>>

NextBatch ==
  \/ HashFile
  \/ OpenFails
  \/ Compare
  \/ AppendHash
  \/ Finish

SpecBatch == InitBatch /\ [][NextBatch]_vars

(***************************************************************************)
(* Claims about the conversions, checked under Spec.                       *)
(***************************************************************************)
h1 == <<<<TRUE, FALSE>>, <<TRUE, TRUE>>>>
h2 == <<<<TRUE, TRUE>>, <<FALSE, TRUE>>>>

\* C1: integer round trip: ImageHash.from_int(int(ImageHash(g)), size) is
\* the grid g again, bit for bit and row by row, for every size x size grid.
C1_IntRoundTrip ==
  (op = "from_int" /\ arg.of = "int" /\ arg.size = Len(hash))
    => result = HashVal(hash)

\* C2: hex round trip: ImageHash.from_string(str(h)) succeeds and equals h,
\* and serializing the decoded hash again gives the same hex string.
C2_HexRoundTrip ==
  /\ op = "from_string" =>
       (result.kind = "ImageHash" /\ eq(hash, result).val)
  /\ op = "str_of_from_string" => result.val = arg.s

\* C3: bit layout of to_int: int([[T,F],[T,T]]) = 0xD with hex string "D",
\* int([[T,T],[F,T]]) = 0xB, and int(from_int(v, size)) = v for every
\* 0 <= v < 2^(size*size).
C3_BitLayout ==
  /\ (op = "int" /\ hash = h1) => result.val = 13
  /\ (op = "str" /\ hash = h1) => result.val = <<"D">>
  /\ (op = "int" /\ hash = h2) => result.val = 11
  /\ (op = "int_of_from_int" /\ arg.of = "given") => result.val = arg.i

\* C4: fixed-length text form: str(h) is the uppercase hexadecimal encoding
\* of int(h), zero padded to exactly ceil(rows*cols/4) digits.
C4_FixedLength ==
  op = "str" =>
    /\ Len(result.val) = (Size(hash) + 3) \div 4
    /\ \A k \in 1..Len(result.val) : IsHexChar(result.val[k])
    /\ ParseHexDigits(result.val) = to_int(hash)

(***************************************************************************)
(* Claims about comparison and distance, checked under SpecPair.           *)
(***************************************************************************)
SameBits(a, b) ==
  /\ Len(a) = Len(b)
  /\ \A y \in 1..Len(a) : Len(a[y]) = Len(b[y])
  /\ \A y \in 1..Len(a) : \A x \in 1..Len(a[y]) : a[y][x] = b[y][x]

\* C5: == and != are complementary and total: for a hash or None as the
\* other operand, (h != o) is the negation of (h == o), h == o holds iff the
\* bits are identical, and for None nothing is raised, h == None is false
\* and h != None is true.
C5_EqNeComplement ==
  /\ op = "eq" =>
       result = BoolVal(other # None /\ SameBits(hash, other.val))
  /\ op = "ne" =>
       result = BoolVal(~(other # None /\ SameBits(hash, other.val)))

\* C6: Hamming distance: for two hashes, a - b raises the shape mismatch
\* error when their bit counts differ and otherwise is the number of
\* positions at which the grids differ; so a - a = 0 and a - b = b - a.
C6_HammingDistance ==
  (op = "sub" /\ other # None) =>
    LET a == hash
        b == other.val
    IN IF Len(a) * Len(a) # Len(b) * Len(b)
       THEN result = Raise("TypeError")
       ELSE /\ result = IntVal(Cardinality(
                 {c \in (1..Len(a)) \X (1..Len(a)) :
                    a[c[1]][c[2]] # b[c[1]][c[2]]}))
            /\ (a = b => result.val = 0)
            /\ result = sub(b, HashVal(a))

C6_Witness ==
  /\ op = "sub"
  /\ hash = h1
  /\ other = HashVal(h2)
  /\ result = IntVal(2)

(***************************************************************************)
(* Claims about decoding, checked under SpecDecode.                        *)
(***************************************************************************)
\* C8: malformed input is never decoded: from_int(v, size) raises ValueError
\* whenever v needs more than size*size bits and otherwise returns a
\* size x size grid; from_string(s) raises ValueError whenever 4*len(s) is
\* no perfect square and otherwise returns from_int(int(s, 16), sqrt(4*len(s))).
C8_DecodeRejects ==
  /\ op = "from_int" =>
       IF Abs(arg.i) >= 2 ^ (arg.size * arg.size)
       THEN result = Raise("ValueError")
       ELSE /\ result.kind = "ImageHash"
            /\ Len(result.val) = arg.size
            /\ \A y \in 1..arg.size : Len(result.val[y]) = arg.size
  /\ op = "from_string" =>
       LET n == 4 * Len(arg.s) IN
       IF ~(\E k \in 0..n : k * k = n)
       THEN result = Raise("ValueError")
       ELSE IF Len(arg.s) = 0 \/ \E j \in 1..Len(arg.s) : ~IsHexChar(arg.s[j])
       THEN result = Raise("ValueError")
       ELSE LET k == CHOOSE k \in 0..n : k * k = n
            IN /\ result = from_int(ParseHexDigits(arg.s), k)
               /\ result.kind = "ImageHash"
               /\ Len(result.val) = k

C8_Witness ==
  /\ op = "from_int"
  /\ arg.i = 256
  /\ arg.size = 2
  /\ result = Raise("ValueError")

(***************************************************************************)
(* Claims about the hash algorithms, checked under SpecAlg.                *)
(***************************************************************************)
IsPowerOfTwo(n) == n >= 1 /\ \E k \in 0..n : 2 ^ k = n

LargestPowerOfTwoUpTo(m) ==
  CHOOSE p \in 1..m : IsPowerOfTwo(p) /\ p <= m /\ 2 * p > m

\* C7: an invalid hash_size is rejected at call entry by every algorithm: a
\* call with hash_size <= 0 ends in an invalid-parameter error raised before
\* the image is converted or resized, and never returns a hash.
C7_InvalidSizeRejected ==
  (call.alg \in Algorithms /\ call.hash_size <= 0) =>
    /\ ~sampled
    /\ pc # "done"
    /\ pc # "entry" =>
         (pc = "raised" /\ ret \in {Raise("ValueError"), Raise("AssertionError")})

\* C10: whash level arithmetic: with hash_size a power of two and image_scale
\* omitted (then the largest power of two <= min(width, height), raised to
\* hash_size if smaller) or an explicit power of two >= hash_size, whash
\* computes dwt_level = log2(image_scale) - log2(hash_size) >= 0 with
\* image_scale = hash_size * 2^dwt_level, and the thresholded Haar band is
\* hash_size x hash_size; otherwise (hash_size no power of two, or an
\* explicit image_scale no power of two or smaller than hash_size) the call
\* fails with an assertion error before sampling.
C10_WhashLevels ==
  (call.alg = "whash" /\ pc # "entry") =>
    LET hash_size == call.hash_size
        given == call.image_scale # None
        valid == /\ IsPowerOfTwo(hash_size)
                 /\ given => /\ IsPowerOfTwo(call.image_scale.val)
                             /\ call.image_scale.val >= hash_size
    IN IF valid
       THEN /\ pc # "raised"
            /\ image_scale.val =
                 IF given THEN call.image_scale.val
                 ELSE Max(LargestPowerOfTwoUpTo(Min(call.size[1], call.size[2])),
                          hash_size)
            /\ dwt_level >= 0
            /\ image_scale.val = hash_size * 2 ^ dwt_level
            /\ pc = "done" => ret = Shape(hash_size, hash_size)
       ELSE /\ pc = "raised"
            /\ ret = Raise("AssertionError")
            /\ ~sampled

(***************************************************************************)
(* Claims about the batch comparison, checked under SpecBatch.             *)
(***************************************************************************)
\* number of cells at which two grids of one shape differ
Hamming(a, b) ==
  Cardinality({c \in (1..Len(a)) \X (1..Len(a)) : a[c[1]][c[2]] # b[c[1]][c[2]]})

\* the hash computed for the file at position j of files
HashAt(j) == IF j <= Len(l) THEN l[j][1] ELSE h

\* the reports due for file j against the files 1..upto, in ascending order
RECURSIVE ReportsFor(_, _)
ReportsFor(j, upto) ==
  IF upto = 0 THEN <<>>
  ELSE LET d == Hamming(HashAt(upto).val, HashAt(j).val)
       IN ReportsFor(j, upto - 1) \o
            (IF d <= cutoff THEN <<<<d, files[j], files[upto]>>>> ELSE <<>>)

\* the reports due for the files 1..j, each against all earlier files
RECURSIVE ReportsUpTo(_)
ReportsUpTo(j) ==
  IF j = 0 THEN <<>> ELSE ReportsUpTo(j - 1) \o ReportsFor(j, j - 1)

\* C9: batch comparison order: a report (d, fj, fi) is printed exactly once
\* for each pair i < j with d = distance(hash(fi), hash(fj)) <= cutoff and
\* for no other pair; the reports are ordered by j and, for one j, by i; and
\* all reports for fj are printed before f(j+1) is hashed.
C9_BatchOrder ==
  /\ bpc = "for" => (Len(l) = fi - 1 /\ out = ReportsUpTo(fi - 1))
  /\ bpc = "inner" => (Len(l) = fi - 1 /\ out = ReportsUpTo(fi - 1) \o ReportsFor(fi, li - 1))
  /\ bpc = "done" => (fi = Len(files) + 1 /\ out = ReportsUpTo(Len(files)))
  /\ \A j \in 1..Len(l) : l[j][2] = files[j]

C9_Witness ==
  /\ bpc = "done"
  /\ files = <<"a.png", "b.png", "a.png">>
  /\ Len(out) = 2
  /\ out[1][2] = files[3]
  /\ out[1][3] = files[1]
  /\ out[2][3] = files[2]

====
